---- MODULE Spec2Model ----
(***************************************************************************)
(* Model of src/slice_reader.rs: parse_next, the single-value MessagePack  *)
(* decoder, together with the callers it is written for (a streaming       *)
(* caller that feeds bytes and decodes again, a retry loop that follows    *)
(* the NeedMoreData hint, and an encode-then-decode round trip).           *)
(*                                                                         *)
(* Representation.                                                         *)
(*  - A byte (u8) is an integer 0..255; u16, i8, i16 and i32 are integers. *)
(*  - TLC's integers are 32 bits wide, so u32, u64, i64 and usize values   *)
(*    are kept as big-endian tuples of 16-bit limbs (0..65535): a u32 is   *)
(*    2 limbs, a u64 / i64 / usize is 4 limbs; an i64 is its two's         *)
(*    complement bit pattern.  Every conversion of the source (big-endian  *)
(*    reads, `as` casts) is an operator computing those limbs.             *)
(*  - f32 / f64 are their IEEE-754 bit pattern (a u32 / u64): transmute    *)
(*    keeps the bits.                                                      *)
(*  - A slice &'a [u8] borrowed from the input is [off, len]: a view of    *)
(*    len bytes starting off bytes into the caller's buffer.               *)
(*  - Option<T> is a sequence of at most one element.                      *)
(***************************************************************************)
EXTENDS Integers, Sequences, FiniteSets, TLC

VARIABLES data, result, nmd, short, val

vars == <<data, result, nmd, short, val>>

(***************************************************************************)
(* Machine integers                                                        *)
(***************************************************************************)

\* Number of 16-bit limbs of a usize (a 64-bit target).
UsizeLimbs == 4

\* A limb holds 16 bits.
LimbBase == 256 * 256

\* k as usize, for a buffer length k (slice::len()).
UsizeOf(k) ==
    [i \in 1..UsizeLimbs |->
        IF i = UsizeLimbs THEN k % LimbBase
        ELSE IF i = UsizeLimbs - 1 THEN k \div LimbBase
        ELSE 0]

\* a < b on two usize values.
RECURSIVE LimbsLtFrom(_, _, _)
LimbsLtFrom(a, b, i) ==
    IF i > Len(a) THEN FALSE
    ELSE IF a[i] # b[i] THEN a[i] < b[i]
    ELSE LimbsLtFrom(a, b, i + 1)

UsizeLt(a, b) == LimbsLtFrom(a, b, 1)

\* a - b on two usize values with b <= a (limb-wise, with borrow).
RECURSIVE LimbsSubFrom(_, _, _, _)
LimbsSubFrom(a, b, i, borrow) ==
    IF i = 0 THEN a
    ELSE LET t == a[i] - b[i] - borrow
         IN  IF t >= 0
             THEN LimbsSubFrom([a EXCEPT ![i] = t], b, i - 1, 0)
             ELSE LimbsSubFrom([a EXCEPT ![i] = t + LimbBase], b, i - 1, 1)

UsizeSub(a, b) == LimbsSubFrom(a, b, Len(a), 0)

\* A usize that is at most a buffer length, as an index.
UsizeToNat(n) == n[UsizeLimbs - 1] * LimbBase + n[UsizeLimbs]

\* Zero-extension to 64 bits: `x as u64`, `x as usize` for x: u8, u16.
ZeroExtend(x) == <<0, 0, 0, x>>

\* The u32 is cut to its low 16 bits.
ZeroExtend32_trunc(x) == <<0, 0, 0, x[2]>>

\* Zero-extension to 64 bits of a u32 (two limbs): `x as u64`, `x as usize`.
ZeroExtend32(x) == <<0, 0, x[1], x[2]>>

\* `x as i8` for x: u8, and `x as i16` for x: u16 (the same bits, signed).
AsI8(x) == IF x >= 128 THEN x - 256 ELSE x

AsI16(x) == IF x >= 32768 THEN x - LimbBase ELSE x

\* `x as i32` for x: u32.
AsI32(x) == AsI16(x[1]) * LimbBase + x[2]

\* The upper bits are zero-filled, whatever the sign.
SignExtend_zero(x) == <<0, 0, (x \div LimbBase) % LimbBase, x % LimbBase>>

\* Sign-extension to 64 bits: `x as i64` for x: i8, i16, i32.
SignExtend(x) ==
    LET s == IF x < 0 THEN LimbBase - 1 ELSE 0
    IN  <<s, s, (x \div LimbBase) % LimbBase, x % LimbBase>>

\* `x as i64` for x: u64 (the same bits, signed).
AsI64(x) == x

\* mem::transmute of a u32 to f32 and of a u64 to f64: the bits are kept.
Transmute(x) == x

(***************************************************************************)
(* Slices borrowed from the input                                          *)
(***************************************************************************)

Slice(off, len) == [off |-> off, len |-> len]

\* The bytes a slice views in the buffer.
Bytes(buf, s) == SubSeq(buf, s.off + 1, s.off + s.len)

\* The second half is the whole slice again.
split_at_same(s, n) == <<Slice(s.off, n), s>>

\* slice::split_at(n), n <= s.len
split_at(s, n) == <<Slice(s.off, n), Slice(s.off + n, s.len - n)>>

(***************************************************************************)
(* Results                                                                 *)
(***************************************************************************)

Some(x) == <<x>>

Ok(v, rest) == [kind |-> "Ok", value |-> v, rest |-> rest]

Eos == [kind |-> "Eos"]

Invalid(reason) == [kind |-> "Invalid", reason |-> reason]

NeedMoreData(hint) == [kind |-> "NeedMoreData", hint |-> hint]

Nil == [type |-> "Nil"]

Boolean(b) == [type |-> "Boolean", b |-> b]

Unsigned(v) == [type |-> "Unsigned", v |-> v]

Signed(v) == [type |-> "Signed", v |-> v]

Float(bits) == [type |-> "Float", bits |-> bits]

Double(bits) == [type |-> "Double", bits |-> bits]

String(span) == [type |-> "String", span |-> span]

Binary(span) == [type |-> "Binary", span |-> span]

Array(n) == [type |-> "Array", n |-> n]

Map(n) == [type |-> "Map", n |-> n]

(***************************************************************************)
(* The macros                                                              *)
(***************************************************************************)

\* The hint is the width asked for, not the shortfall.
needs_more_data_whole(n, s) ==
    IF UsizeLt(UsizeOf(s.len), n)
    THEN [more |-> TRUE, err |-> NeedMoreData(Some(n))]
    ELSE LET parts == split_at(s, UsizeToNat(n))
         IN  [more |-> FALSE, d |-> parts[1], rest |-> parts[2]]

\* The length test is <= instead of <.
needs_more_data_le(n, s) ==
    IF ~UsizeLt(n, UsizeOf(s.len))
    THEN [more |-> TRUE,
          err  |-> NeedMoreData(Some(UsizeSub(n, UsizeOf(s.len))))]
    ELSE LET parts == split_at(s, UsizeToNat(n))
         IN  [more |-> FALSE, d |-> parts[1], rest |-> parts[2]]

\* needs_more_data!(n, data): the early return (more = TRUE, with the error)
\* or the two halves of data.split_at(n).
needs_more_data(n, s) ==
    IF UsizeLt(UsizeOf(s.len), n)
    THEN [more |-> TRUE,
          err  |-> NeedMoreData(Some(UsizeSub(n, UsizeOf(s.len))))]
    ELSE LET parts == split_at(s, UsizeToNat(n))
         IN  [more |-> FALSE, d |-> parts[1], rest |-> parts[2]]

\* The 2-byte item read little-endian.
be_u16_le(item) == item[2] * 256 + item[1]

\* be_u16!(item): read_u16::<BigEndian> of a 2-byte item.
be_u16(item) == item[1] * 256 + item[2]

\* The 4-byte item read little-endian.
be_u32_le(item) == <<item[4] * 256 + item[3], item[2] * 256 + item[1]>>

\* be_u32!(item): read_u32::<BigEndian> of a 4-byte item.
be_u32(item) == <<item[1] * 256 + item[2], item[3] * 256 + item[4]>>

\* be_u64!(item): read_u64::<BigEndian> of an 8-byte item.
be_u64(item) ==
    <<item[1] * 256 + item[2], item[3] * 256 + item[4],
      item[5] * 256 + item[6], item[7] * 256 + item[8]>>

(***************************************************************************)
(* parse_next                                                              *)
(***************************************************************************)

\* The bytes of the item split off by needs_more_data!.
Item(buf, r) == Bytes(buf, r.d)

\* match needs_more_data!(n, rest) { (item, rest) => Ok((Value::String(item), rest)) }
ReadString(n, rest) ==
    LET q == needs_more_data(n, rest)
    IN  IF q.more THEN q.err ELSE Ok(String(q.d), q.rest)

\* match needs_more_data!(n, rest) { (item, rest) => Ok((Value::Binary(item), rest)) }
ReadBinary(n, rest) ==
    LET q == needs_more_data(n, rest)
    IN  IF q.more THEN q.err ELSE Ok(Binary(q.d), q.rest)

\* match c { ... }: the dispatch on the tag byte c, rest being the input
\* after it.
parse_tag(buf, c, rest) ==
        CASE c = \hc0 -> Ok(Nil, rest)
          [] c = \hc1 -> Invalid("Reserved")
          [] c = \hc2 -> Ok(Boolean(FALSE), rest)
          [] c = \hc3 -> Ok(Boolean(TRUE), rest)
          [] c \in \h00..\h7f -> Ok(Unsigned(ZeroExtend(c)), rest)
          \* Unsigned integers
          [] c = \hcc ->
                LET r == needs_more_data(ZeroExtend(1), rest)
                IN  IF r.more THEN r.err
                    ELSE Ok(Unsigned(ZeroExtend(Item(buf, r)[1])), r.rest)
          [] c = \hcd ->
                LET r == needs_more_data(ZeroExtend(2), rest)
                IN  IF r.more THEN r.err
                    ELSE Ok(Unsigned(ZeroExtend(be_u16(Item(buf, r)))), r.rest)
          [] c = \hce ->
                LET r == needs_more_data(ZeroExtend(4), rest)
                IN  IF r.more THEN r.err
                    ELSE Ok(Unsigned(ZeroExtend32(be_u32(Item(buf, r)))), r.rest)
          [] c = \hcf ->
                LET r == needs_more_data(ZeroExtend(8), rest)
                IN  IF r.more THEN r.err
                    ELSE Ok(Unsigned(be_u64(Item(buf, r))), r.rest)
          \* Signed integers
          [] c = \hd0 ->
                LET r == needs_more_data(ZeroExtend(1), rest)
                IN  IF r.more THEN r.err
                    ELSE Ok(Signed(SignExtend(AsI8(Item(buf, r)[1]))), r.rest)
          [] c = \hd1 ->
                LET r == needs_more_data(ZeroExtend(2), rest)
                IN  IF r.more THEN r.err
                    ELSE Ok(Signed(SignExtend(AsI16(be_u16(Item(buf, r))))), r.rest)
          [] c = \hd2 ->
                LET r == needs_more_data(ZeroExtend(4), rest)
                IN  IF r.more THEN r.err
                    ELSE Ok(Signed(SignExtend(AsI32(be_u32(Item(buf, r))))), r.rest)
          [] c = \hd3 ->
                LET r == needs_more_data(ZeroExtend(8), rest)
                IN  IF r.more THEN r.err
                    ELSE Ok(Signed(AsI64(be_u64(Item(buf, r)))), r.rest)
          [] c \in \he0..\hff -> Ok(Signed(SignExtend(AsI8(c))), rest)
          \* Floating point
          [] c = \hca ->
                LET r == needs_more_data(ZeroExtend(4), rest)
                IN  IF r.more THEN r.err
                    ELSE Ok(Float(Transmute(be_u32(Item(buf, r)))), r.rest)
          [] c = \hcb ->
                LET r == needs_more_data(ZeroExtend(8), rest)
                IN  IF r.more THEN r.err
                    ELSE Ok(Double(Transmute(be_u64(Item(buf, r)))), r.rest)
          \* String; (c as usize) & 0x1F is c % 32
          [] c \in \ha0..\hbf -> ReadString(ZeroExtend(c % 32), rest)
          [] c = \hd9 ->
                LET r == needs_more_data(ZeroExtend(1), rest)
                IN  IF r.more THEN r.err
                    ELSE ReadString(ZeroExtend(Item(buf, r)[1]), r.rest)
          [] c = \hda ->
                LET r == needs_more_data(ZeroExtend(2), rest)
                IN  IF r.more THEN r.err
                    ELSE ReadString(ZeroExtend(be_u16(Item(buf, r))), r.rest)
          [] c = \hdb ->
                LET r == needs_more_data(ZeroExtend(4), rest)
                IN  IF r.more THEN r.err
                    ELSE ReadString(ZeroExtend32(be_u32(Item(buf, r))), r.rest)
          \* Binary
          [] c = \hc4 ->
                LET r == needs_more_data(ZeroExtend(1), rest)
                IN  IF r.more THEN r.err
                    ELSE ReadBinary(ZeroExtend(Item(buf, r)[1]), r.rest)
          [] c = \hc5 ->
                LET r == needs_more_data(ZeroExtend(2), rest)
                IN  IF r.more THEN r.err
                    ELSE ReadBinary(ZeroExtend(be_u16(Item(buf, r))), r.rest)
          [] c = \hc6 ->
                LET r == needs_more_data(ZeroExtend(4), rest)
                IN  IF r.more THEN r.err
                    ELSE ReadBinary(ZeroExtend32(be_u32(Item(buf, r))), r.rest)
          \* Array; (c as usize) & 0x0F is c % 16
          [] c \in \h90..\h9f -> Ok(Array(ZeroExtend(c % 16)), rest)
          [] c = \hdc ->
                LET r == needs_more_data(ZeroExtend(2), rest)
                IN  IF r.more THEN r.err
                    ELSE Ok(Array(ZeroExtend(be_u16(Item(buf, r)))), r.rest)
          [] c = \hdd ->
                LET r == needs_more_data(ZeroExtend(4), rest)
                IN  IF r.more THEN r.err
                    ELSE Ok(Array(ZeroExtend32(be_u32(Item(buf, r)))), r.rest)
          \* Map
          [] c \in \h80..\h8f -> Ok(Map(ZeroExtend(c % 16)), rest)
          [] c = \hde ->
                LET r == needs_more_data(ZeroExtend(2), rest)
                IN  IF r.more THEN r.err
                    ELSE Ok(Map(ZeroExtend(be_u16(Item(buf, r)))), r.rest)
          [] c = \hdf ->
                LET r == needs_more_data(ZeroExtend(4), rest)
                IN  IF r.more THEN r.err
                    ELSE Ok(Map(ZeroExtend32(be_u32(Item(buf, r)))), r.rest)
          \* Ext: TODO
          [] OTHER -> Invalid("Invalid")

\* An empty input read as an unfinished value.
parse_next_noeos(buf) ==
    IF Len(buf) = 0 THEN NeedMoreData(Some(ZeroExtend(1)))
    ELSE parse_tag(buf, buf[1], Slice(1, Len(buf) - 1))

\* The Ext 8 tag read as a length-prefixed payload.
parse_next_ext(buf) ==
    IF Len(buf) = 0 THEN Eos
    ELSE IF buf[1] = \hc7
         THEN LET r == needs_more_data(ZeroExtend(1), Slice(1, Len(buf) - 1))
              IN  IF r.more THEN r.err
                  ELSE ReadBinary(ZeroExtend(Item(buf, r)[1]), r.rest)
         ELSE parse_tag(buf, buf[1], Slice(1, Len(buf) - 1))

\* match data.split_first() { Some((&c, rest)) => match c {...}, None => Err(Eos) }
parse_next(buf) ==
    IF Len(buf) = 0 THEN Eos
    ELSE parse_tag(buf, buf[1], Slice(1, Len(buf) - 1))

(***************************************************************************)
(* The callers                                                             *)
(***************************************************************************)

\* The caller has not called parse_next on the buffer as it is now.
NoCall == [kind |-> "NoCall"]

\* No value is being round-tripped.
NoVal == <<>>

\* Bytes a sender may put after the tag byte.
SampleBytes == {\h00, \h01, \hff}

\* Byte streams a sender may also send: the documented examples and the
\* boundary patterns of the signed and floating point fields.
Vectors ==
    { <<\hd9, \h05, 97, 98, 99, 100, 101>>,
      <<\ha3, 97, 98, 99>>,
      <<\hca, \h00, \h00, \h80, \h3f>>,
      <<\hca, \h3f, \h80, \h00, \h00>>,
      <<\hcb, \h3f, \hf0, \h00, \h00, \h00, \h00, \h00, \h00>>,
      <<\h92, \h05, \hc0>>,
      <<\hd0, \h80>>,
      <<\hd0, \h7f>>,
      <<\hd1, \h80, \h00>>,
      <<\hd1, \h7f, \hff>>,
      <<\hd2, \h80, \h00, \h00, \h00>>,
      <<\hd2, \h7f, \hff, \hff, \hff>>,
      <<\hd3, \h80, \h00, \h00, \h00, \h00, \h00, \h00, \h00>>,
      <<\hd3, \h7f, \hff, \hff, \hff, \hff, \hff, \hff, \hff>> }

\* The bytes a sender may send next, the buffer holding buf: any tag first,
\* then a sample byte or the next byte of a vector that starts with buf.
NextBytes(buf) ==
    IF buf = <<>> THEN 0..255
    ELSE SampleBytes \cup
         { v[Len(buf) + 1] :
             v \in { w \in Vectors : /\ Len(w) > Len(buf)
                                     /\ SubSeq(w, 1, Len(buf)) = buf } }

\* At most this many bytes are fed past a decoded value or an invalid tag.
MaxTrail == 1

\* A caller told to wait for more than this many bytes stops feeding.
MaxPending == 8

\* The retry loop starts from a tag and at most this many bytes.
MaxStart == 2

\* Whether the caller goes on feeding after the outcome r on buf.
CanFeed(buf, r) ==
    CASE r.kind = "Eos" -> TRUE
      [] r.kind = "Ok" -> r.rest.len < MaxTrail
      [] r.kind = "Invalid" -> Len(buf) - 1 < MaxTrail
      [] r.kind = "NeedMoreData" ->
            /\ r.hint # <<>>
            /\ ~UsizeLt(UsizeOf(MaxPending), r.hint[1])
      [] OTHER -> FALSE

Init ==
    /\ data = <<>>
    /\ result = NoCall
    /\ nmd = 0
    /\ short = FALSE
    /\ val = NoVal

\* let r = parse_next(&data): the caller decodes the buffer from its start
\* and counts the NeedMoreData outcomes.
Call ==
    /\ result = NoCall
    /\ result' = parse_next(data)
    /\ nmd' = IF result'.kind = "NeedMoreData" THEN nmd + 1 ELSE nmd
    /\ UNCHANGED <<data, short, val>>

\* One more byte arrives and is appended to the same buffer.
Recv(b) ==
    /\ result # NoCall
    /\ CanFeed(data, result)
    /\ data' = Append(data, b)
    /\ result' = NoCall
    /\ UNCHANGED <<nmd, short, val>>

Next ==
    \/ Call
    \/ \E b \in NextBytes(data) : Recv(b)

Spec == Init /\ [][Next]_vars

(***************************************************************************)
(* The retry loop: on NeedMoreData(Some(h)) append h bytes and call again  *)
(***************************************************************************)

\* All byte strings of length n over the sample bytes.
Chunks(n) == [1..n -> SampleBytes]

RetryStarts ==
    UNION { { <<c>> \o t : t \in Chunks(n) } : c \in 0..255, n \in 0..MaxStart }
    \cup UNION { { SubSeq(v, 1, n) : n \in 1..Len(v) } : v \in Vectors }

RetryInit ==
    /\ data \in RetryStarts
    /\ result = NoCall
    /\ nmd = 0
    /\ short = FALSE
    /\ val = NoVal

\* The hint of a NeedMoreData outcome as a number, when it is at most
\* MaxPending; MaxPending + 1 otherwise.
Pending(r) ==
    IF r.hint = <<>> \/ UsizeLt(UsizeOf(MaxPending), r.hint[1])
    THEN MaxPending + 1
    ELSE UsizeToNat(r.hint[1])

\* Exactly the hinted number of bytes arrive.
Supply ==
    /\ result.kind = "NeedMoreData"
    /\ ~short
    /\ Pending(result) <= MaxPending
    /\ \E ext \in Chunks(Pending(result)) : data' = data \o ext
    /\ result' = NoCall
    /\ UNCHANGED <<nmd, short, val>>

\* Fewer bytes than hinted arrive, and the caller tries again all the same.
SupplyShort ==
    /\ result.kind = "NeedMoreData"
    /\ ~short
    /\ Pending(result) <= MaxPending
    /\ \E k \in 0..(Pending(result) - 1) :
          \E ext \in Chunks(k) : data' = data \o ext
    /\ result' = NoCall
    /\ short' = TRUE
    /\ UNCHANGED <<nmd, val>>

RetryNext ==
    \/ Call
    \/ Supply
    \/ SupplyShort

SpecRetry == RetryInit /\ [][RetryNext]_vars

(***************************************************************************)
(* The round trip: encode a u64 with the minimal-width tag, decode it      *)
(***************************************************************************)

SampleLimbs == {0, 1, 127, 128, 255, 256, 65535}

\* The u64 values encoded.
UValues == [1..4 -> SampleLimbs]

\* The two bytes of a limb, high byte first.
LimbBytes(x) == <<x \div 256, x % 256>>

\* The canonical minimal-width encoding of the u64 v: positive fixint up to
\* 127, 0xCC + 1 byte up to 255, 0xCD + 2 bytes up to 65535, 0xCE + 4 bytes
\* up to 2^32 - 1, else 0xCF + 8 bytes, big-endian.
Encode(v) ==
    IF v[1] = 0 /\ v[2] = 0 /\ v[3] = 0
    THEN IF v[4] <= 127 THEN <<v[4]>>
         ELSE IF v[4] <= 255 THEN <<\hcc, v[4]>>
         ELSE <<\hcd>> \o LimbBytes(v[4])
    ELSE IF v[1] = 0 /\ v[2] = 0
         THEN <<\hce>> \o LimbBytes(v[3]) \o LimbBytes(v[4])
         ELSE <<\hcf>> \o LimbBytes(v[1]) \o LimbBytes(v[2])
                       \o LimbBytes(v[3]) \o LimbBytes(v[4])

RoundTripInit ==
    /\ data = <<>>
    /\ result = NoCall
    /\ nmd = 0
    /\ short = FALSE
    /\ val \in UValues

\* The encoder writes the value into the empty buffer.
EncodeVal ==
    /\ data = <<>>
    /\ data' = Encode(val)
    /\ UNCHANGED <<result, nmd, short, val>>

\* The encoded bytes are decoded.
DecodeVal ==
    /\ data # <<>>
    /\ Call

RoundTripNext ==
    \/ EncodeVal
    \/ DecodeVal

SpecRoundTrip == RoundTripInit /\ [][RoundTripNext]_vars

(***************************************************************************)
(* Properties                                                              *)
(***************************************************************************)

\* The caller holds the outcome of parse_next on the buffer as it is now.
Called == result # NoCall

\* The natural number k < 2^32 as four limbs.
NatLimbs(k) == <<0, 0, k \div LimbBase, k % LimbBase>>

\* The natural number whose big-endian base-256 digits are the (at most 8)
\* bytes bs, as four limbs.
Num(bs) ==
    LET pad == 8 - Len(bs)
        d   == [i \in 1..8 |-> IF i <= pad THEN 0 ELSE bs[i - pad]]
    IN  [k \in 1..4 |-> d[2 * k - 1] * 256 + d[2 * k]]

\* x + k for limbs x and a natural k < 65536; a carry out of the top limb
\* is kept as a leading fifth limb.
RECURSIVE PlusFrom(_, _, _)
PlusFrom(x, i, k) ==
    IF k = 0 THEN x
    ELSE IF i = 0 THEN <<k>> \o x
    ELSE LET t == x[i] + k
         IN  PlusFrom([x EXCEPT ![i] = t % LimbBase], i - 1, t \div LimbBase)

Plus(x, k) == PlusFrom(x, Len(x), k)

\* The tag byte of a non-empty buffer and the bytes after it.
Tag == data[1]

Avail == Len(data) - 1

\* The k bytes after the first n bytes of the buffer.
Field(n, k) == SubSeq(data, n + 1, n + k)

\* Tags 0xC1, Ext 8/16/32 and FixExt 1/2/4/8/16.
InvalidTags == {\hc1} \cup (\hc7..\hc9) \cup (\hd4..\hd8)

\* String8/16/32 and Binary8/16/32, with the width of the length prefix.
PayloadTags == {\hd9, \hda, \hdb, \hc4, \hc5, \hc6}

PrefixWidth(c) ==
    CASE c \in {\hd9, \hc4} -> 1
      [] c \in {\hda, \hc5} -> 2
      [] c \in {\hdb, \hc6} -> 4

\* The tags followed by one fixed-width value or count field, with its width.
FixedTags == (\hca..\hcf) \cup (\hd0..\hd3) \cup (\hdc..\hdf)

FixedWidth(c) ==
    CASE c \in {\hcc, \hd0} -> 1
      [] c \in {\hcd, \hd1, \hdc, \hde} -> 2
      [] c \in {\hce, \hd2, \hca, \hdd, \hdf} -> 4
      [] c \in {\hcf, \hd3, \hcb} -> 8

ShortStrTags == \ha0..\hbf

\* The width w of the field being read when the buffer runs out, and the
\* number a of its bytes that are in the buffer.
CurWidth ==
    CASE Tag \in FixedTags -> NatLimbs(FixedWidth(Tag))
      [] Tag \in ShortStrTags -> NatLimbs(Tag - \ha0)
      [] Tag \in PayloadTags ->
            IF Avail < PrefixWidth(Tag) THEN NatLimbs(PrefixWidth(Tag))
            ELSE Num(Field(1, PrefixWidth(Tag)))
      [] OTHER -> NatLimbs(0)

CurAvail ==
    IF Tag \in PayloadTags /\ Avail >= PrefixWidth(Tag)
    THEN Avail - PrefixWidth(Tag)
    ELSE Avail

\* C1: whenever parse_next fails with NeedMoreData the hint is Some(h) with
\* h = w - a, w the width of the field being read (the fixed field after
\* the tag or, the length prefix read, the declared payload length) and a,
\* 0 <= a < w, the bytes of it in the buffer; [0xD9, 5, 'a', 'b'] gives a
\* hint of 3 and [0xD9, 5, 'a', 'b', 'c', 'd', 'e'] gives String("abcde").
C1_HintIsShortfall ==
    /\ (Called /\ result.kind = "NeedMoreData") =>
          /\ data # <<>>
          /\ Len(result.hint) = 1
          /\ result.hint[1] # NatLimbs(0)
          /\ CurAvail >= 0
          /\ Plus(result.hint[1], CurAvail) = CurWidth
    /\ (Called /\ data = <<\hd9, 5, 97, 98>>) =>
          result = NeedMoreData(Some(NatLimbs(3)))
    /\ (Called /\ data = <<\hd9, 5, 97, 98, 99, 100, 101>>) =>
          /\ result = Ok(String(Slice(2, 5)), Slice(7, 0))
          /\ Bytes(data, result.value.span) = <<97, 98, 99, 100, 101>>

C1_Witness ==
    /\ data = <<\hd9, 5, 97, 98>>
    /\ result.kind = "NeedMoreData"

\* The length of the prefix of the buffer that holds its first value, as
\* limbs: the tag, the fixed field or length prefix, the payload.
Required ==
    CASE Tag \in FixedTags -> NatLimbs(1 + FixedWidth(Tag))
      [] Tag \in ShortStrTags -> NatLimbs(1 + (Tag - \ha0))
      [] Tag \in PayloadTags ->
            Plus(Num(Field(1, PrefixWidth(Tag))), 1 + PrefixWidth(Tag))
      [] OTHER -> NatLimbs(1)

\* C2: on success the input is the consumed prefix followed by the
\* remainder, the prefix has the length the format requires for the one
\* value (1; 1 + w; 1 + (tag & 0x1F); 1 + p + L), and a String or Binary
\* payload is the last L bytes of that prefix, inside the input;
\* [0xA3, 'a', 'b', 'c'] gives String("abc") and an empty remainder.
C2_ConsumedPrefix ==
    /\ (Called /\ result.kind = "Ok") =>
          /\ result.rest.off + result.rest.len = Len(data)
          /\ result.rest.len >= 0
          /\ NatLimbs(result.rest.off) = Required
          /\ result.value.type \in {"String", "Binary"} =>
                LET span == result.value.span
                    hdr  == IF Tag \in PayloadTags
                            THEN 1 + PrefixWidth(Tag) ELSE 1
                IN  /\ span.off = hdr
                    /\ span.len >= 0
                    /\ span.off + span.len = result.rest.off
                    /\ span.off + span.len <= Len(data)
    /\ (Called /\ data = <<\ha3, 97, 98, 99>>) =>
          /\ result = Ok(String(Slice(1, 3)), Slice(4, 0))
          /\ Bytes(data, result.value.span) = <<97, 98, 99>>

C2_Witness ==
    /\ data = <<\ha3, 97, 98, 99>>
    /\ result.kind = "Ok"

\* C3: parse_next returns Invalid exactly when the input is non-empty and
\* its first byte is 0xC1 or an Ext tag (0xC7..0xC9, 0xD4..0xD8), whatever
\* bytes follow it.
C3_InvalidIffTag ==
    Called =>
        (result.kind = "Invalid" <=> (data # <<>> /\ Tag \in InvalidTags))

C3_Witness ==
    /\ Len(data) = 2
    /\ Tag = \hc7
    /\ result.kind = "Invalid"

\* C4: parse_next returns Eos exactly when the input is empty.
C4_EosIffEmpty ==
    Called => (result.kind = "Eos" <=> data = <<>>)

C4_Witness ==
    /\ data = <<>>
    /\ result.kind = "Eos"

\* The end of the buffer as a remainder: nothing is left.
Empty == Slice(Len(data), 0)

\* C5 as stated: 0xCA 00 00 80 3F decodes to the float with bit pattern
\* 0x3F800000 (1.0), and 0xCB 3F F0 00 00 00 00 00 00 to the double with
\* bit pattern 0x3FF0000000000000 (1.0), each with an empty remainder.
C5_AsStated ==
    /\ (Called /\ data = <<\hca, \h00, \h00, \h80, \h3f>>) =>
          result = Ok(Float(<<\h3f80, \h0000>>), Empty)
    /\ (Called /\ data = <<\hcb, \h3f, \hf0, 0, 0, 0, 0, 0, 0>>) =>
          result = Ok(Double(<<\h3ff0, 0, 0, 0>>), Empty)

\* C5, amended: the float 1.0 (bit pattern 0x3F800000) is the decoding of
\* 0xCA 3F 80 00 00, the four bytes being read big-endian; 0xCA 00 00 80 3F
\* decodes to the float with bit pattern 0x0000803F; and
\* 0xCB 3F F0 00 00 00 00 00 00 decodes to the double with bit pattern
\* 0x3FF0000000000000 (1.0); each with an empty remainder, and in general
\* the bit pattern is the big-endian number of the 4 or 8 bytes.
C5_FloatBigEndian ==
    /\ (Called /\ data = <<\hca, \h3f, \h80, \h00, \h00>>) =>
          result = Ok(Float(<<\h3f80, \h0000>>), Empty)
    /\ (Called /\ data = <<\hca, \h00, \h00, \h80, \h3f>>) =>
          result = Ok(Float(<<\h0000, \h803f>>), Empty)
    /\ (Called /\ data = <<\hcb, \h3f, \hf0, 0, 0, 0, 0, 0, 0>>) =>
          result = Ok(Double(<<\h3ff0, 0, 0, 0>>), Empty)
    /\ (Called /\ data # <<>> /\ Tag = \hca /\ Avail >= 4) =>
          /\ result.kind = "Ok"
          /\ result.value.type = "Float"
          /\ <<0, 0>> \o result.value.bits = Num(Field(1, 4))
    /\ (Called /\ data # <<>> /\ Tag = \hcb /\ Avail >= 8) =>
          /\ result.kind = "Ok"
          /\ result.value.type = "Double"
          /\ result.value.bits = Num(Field(1, 8))

C5_Witness ==
    /\ data = <<\hca, \h3f, \h80, \h00, \h00>>
    /\ result.kind = "Ok"

\* C6: a u64 encoded with the canonical minimal-width tag decodes to
\* Unsigned of the same value, with an empty remainder.
C6_RoundTrip ==
    (Called /\ val # NoVal) => result = Ok(Unsigned(val), Empty)

\* The value 2^32, the first to need the 8-byte form, has been decoded.
C6_Witness ==
    /\ val = <<0, 1, 0, 0>>
    /\ data = <<\hcf, 0, 0, 0, 1, 0, 0, 0, 0>>
    /\ result.kind = "Ok"

\* The two's complement value of the bytes bs (at most 4) read big-endian:
\* u if u < 2^(8w-1), else u - 2^(8w).
RECURSIVE NatOf(_)
NatOf(bs) ==
    IF bs = <<>> THEN 0
    ELSE NatOf(SubSeq(bs, 1, Len(bs) - 1)) * 256 + bs[Len(bs)]

SignedOf(bs) ==
    IF bs[1] < 128 THEN NatOf(bs)
    ELSE NatOf(<<bs[1] - 256>> \o Tail(bs))

\* The integer i as an i64 bit pattern in limbs, for -2^31 <= i < 2^31:
\* the limbs of i + 2^64 when i is negative.
I64Of(i) ==
    IF i >= 0 THEN NatLimbs(i)
    ELSE <<LimbBase - 1, LimbBase - 1,
           LimbBase - 1 - ((-(i + 1)) \div LimbBase),
           LimbBase - 1 - ((-(i + 1)) % LimbBase)>>

\* The 64-bit two's complement pattern of the 8 bytes bs is the bytes.
I64OfBytes(bs) == Num(bs)

\* C7: a tag in 0xE0..0xFF decodes to Signed(tag - 256), and 0xD0..0xD3
\* followed by w = 1/2/4/8 bytes to Signed(x), x the two's complement value
\* of the w bytes read big-endian, in [-2^(8w-1), 2^(8w-1) - 1].
C7_SignedValue ==
    /\ (Called /\ data # <<>> /\ Tag \in \he0..\hff) =>
          /\ result.kind = "Ok"
          /\ result.value = Signed(I64Of(Tag - 256))
          /\ result.rest = Slice(1, Avail)
    /\ (Called /\ data = <<\hff>>) => result = Ok(Signed(I64Of(-1)), Empty)
    /\ (Called /\ data # <<>> /\ Tag \in \hd0..\hd3
               /\ Avail >= FixedWidth(Tag)) =>
          LET w == FixedWidth(Tag)
          IN  /\ result.kind = "Ok"
              /\ result.value.type = "Signed"
              /\ result.rest = Slice(1 + w, Avail - w)
              /\ w <= 4 =>
                    LET x == SignedOf(Field(1, w))
                    IN  /\ result.value.v = I64Of(x)
                        /\ w = 1 => (x >= -128 /\ x <= 127)
                        /\ w = 2 => (x >= -32768 /\ x <= 32767)
                        /\ w = 4 => (x >= -2147483647 - 1 /\ x <= 2147483647)
              /\ w = 8 => result.value.v = I64OfBytes(Field(1, 8))

\* 0xD1 0x80 0x00 has been decoded: -32768.
C7_Witness ==
    /\ data = <<\hd1, \h80, \h00>>
    /\ result.kind = "Ok"
    /\ result.value = Signed(<<65535, 65535, 65535, 32768>>)

\* C8: an Array or Map tag decodes to the declared count only: tag & 0x0F
\* for 0x90..0x9F / 0x80..0x8F with everything after the tag as remainder,
\* the 2/4-byte big-endian count for 0xDC/0xDD and 0xDE/0xDF with
\* everything after the count field as remainder, whatever follows.
C8_CountOnly ==
    /\ (Called /\ data # <<>> /\ Tag \in \h90..\h9f) =>
          result = Ok(Array(NatLimbs(Tag - \h90)), Slice(1, Avail))
    /\ (Called /\ data # <<>> /\ Tag \in \h80..\h8f) =>
          result = Ok(Map(NatLimbs(Tag - \h80)), Slice(1, Avail))
    /\ (Called /\ data # <<>> /\ Tag \in \hdc..\hdf
               /\ Avail >= FixedWidth(Tag)) =>
          LET w == FixedWidth(Tag)
              n == Num(Field(1, w))
          IN  result = Ok(IF Tag \in {\hdc, \hdd} THEN Array(n) ELSE Map(n),
                          Slice(1 + w, Avail - w))
    /\ (Called /\ Len(data) >= 1 /\ Tag = \h92) =>
          /\ result.value = Array(NatLimbs(2))
          /\ Bytes(data, result.rest) = Tail(data)

\* 0x92 has been decoded with an element byte after it, which is left.
C8_Witness ==
    /\ data = <<\h92, \h05>>
    /\ result = Ok(Array(NatLimbs(2)), Slice(1, 1))

\* The inputs that declare a length or count of 0 and end there, with the
\* value each decodes to.
ZeroInputs ==
    { <<<<\ha0>>, "String">>,
      <<<<\hd9, 0>>, "String">>,
      <<<<\hda, 0, 0>>, "String">>,
      <<<<\hdb, 0, 0, 0, 0>>, "String">>,
      <<<<\hc4, 0>>, "Binary">>,
      <<<<\hc5, 0, 0>>, "Binary">>,
      <<<<\hc6, 0, 0, 0, 0>>, "Binary">>,
      <<<<\h90>>, "Array">>,
      <<<<\hdc, 0, 0>>, "Array">>,
      <<<<\hdd, 0, 0, 0, 0>>, "Array">>,
      <<<<\h80>>, "Map">>,
      <<<<\hde, 0, 0>>, "Map">>,
      <<<<\hdf, 0, 0, 0, 0>>, "Map">> }

\* C9: a declared length or count of 0 with nothing after the length field
\* is a success: String or Binary of the empty span, Array(0) or Map(0),
\* with an empty remainder.
C9_ZeroLength ==
    \A z \in ZeroInputs :
        (Called /\ data = z[1]) =>
            /\ result.kind = "Ok"
            /\ result.rest = Empty
            /\ result.value.type = z[2]
            /\ z[2] \in {"String", "Binary"} =>
                  /\ result.value.span = Empty
                  /\ Bytes(data, result.value.span) = <<>>
            /\ z[2] \in {"Array", "Map"} => result.value.n = NatLimbs(0)

C9_Witness ==
    /\ data = <<\hdb, 0, 0, 0, 0>>
    /\ result = Ok(String(Slice(5, 0)), Slice(5, 0))

\* C10: a caller that starts from a non-empty buffer whose first byte is
\* not an invalid tag and appends exactly h bytes on each NeedMoreData(h)
\* sees NeedMoreData at most twice (at most once unless the tag is
\* String8/16/32 or Binary8/16/32), never Eos or Invalid, and an Ok with an
\* empty remainder once a NeedMoreData has preceded it; with fewer than h
\* bytes appended the outcome is NeedMoreData again.
C10_RetryLoop ==
    (data # <<>> /\ Tag \notin InvalidTags) =>
        /\ ~short =>
              /\ nmd <= 2
              /\ Tag \notin PayloadTags => nmd <= 1
              /\ Called => result.kind \in {"Ok", "NeedMoreData"}
              /\ (Called /\ result.kind = "Ok" /\ nmd >= 1) =>
                    result.rest = Empty
        /\ (short /\ Called) => result.kind = "NeedMoreData"

\* A String 8 read in the two stages: two NeedMoreData, then the value.
C10_Witness ==
    /\ data # <<>>
    /\ Tag = \hd9
    /\ ~short
    /\ nmd = 2
    /\ result.kind = "Ok"
    /\ result.value.span.len = 1

\* A short supply has been answered.
C10_ShortWitness ==
    /\ short
    /\ result.kind = "NeedMoreData"

====
